---- MODULE Spec2Model ----
(***************************************************************************)
(* Model of the Fordefi webhook receiver (src/app.py).                     *)
(*                                                                         *)
(* One handler invocation (fordefi_webhook) per request.  The handler is   *)
(* split at the places where it calls out or can leave: header check, body *)
(* read, signature verification, logging of the body, JSON parse,          *)
(* transaction_id extraction, fetch call / reply, data check, origin       *)
(* extraction, receiver extraction, comparison, abort call / reply.        *)
(*                                                                         *)
(* JSON values are tagged records [t, v]; Python's operations on them      *)
(* (dict.get, subscripting, truthiness, len, str.lower) are operators that *)
(* return either a value or the exception Python raises.                   *)
(***************************************************************************)
EXTENDS Integers, Sequences, FiniteSets, TLC

\* ------------------------------------------------------------------ bounds

\* Longest vault address string the platform's records carry in the model.
MaxAddrLen == 2

\* ------------------------------------------------------- program constants

HTTP_OK == 200
UNAUTHORIZED == 401
BAD_REQUEST == 400
INTERNAL_SERVER_ERROR == 500

MsgMissingSignature == "Missing signature"
MsgInvalidSignature == "Invalid signature"
MsgInvalidJson == "Invalid JSON in request body"
MsgNoData == "Webhook processed; no transaction data found."
MsgVaultNotFound == "Vault address not found in the transaction data."
MsgReceiverNotFound == "Receiver address not found in raw_data."
MsgOk == "Webhook received successfully"

\* ------------------------------------------------------------- JSON values

Null == [t |-> "null", v |-> 0]
Num(n) == [t |-> "num", v |-> n]
Str(s) == [t |-> "str", v |-> s]
List(s) == [t |-> "list", v |-> s]
Obj(f) == [t |-> "obj", v |-> f]
EmptyObj == Obj([k \in {} |-> Null])

\* A key that an object does not carry (used only to build objects).
Absent == [t |-> "absent", v |-> 0]

\* The object with the keys of f whose value is not Absent.
MkObj(f) == Obj([k \in {x \in DOMAIN f : f[x] # Absent} |-> f[k]])

\* An exception raised by a Python expression.
Raise(name) == [t |-> "raise", v |-> name]
IsRaise(x) == x.t = "raise"

\* Mutant: `is not None` in place of truthiness.
Truthy_IsNotNone(j) == j.t # "null"

\* Python truth value of a JSON value (None, 0, "", [], {} are falsy).
Truthy(j) ==
    CASE j.t = "null" -> FALSE
      [] j.t = "num" -> j.v # 0
      [] j.t = "str" -> Len(j.v) > 0
      [] j.t = "list" -> Len(j.v) > 0
      [] j.t = "obj" -> DOMAIN j.v # {}
      [] j.t = "bool" -> j.v
      [] OTHER -> FALSE

\* j.get(k, d): only a dict has .get; an exception raised while evaluating j
\* propagates.
DictGet(j, k, d) ==
    IF IsRaise(j) THEN j
    ELSE IF j.t # "obj" THEN Raise("AttributeError")
    ELSE IF k \in DOMAIN j.v THEN j.v[k]
    ELSE d

\* j[k] with a string key k.
Subscript(j, k) ==
    IF IsRaise(j) THEN j
    ELSE IF j.t = "obj" THEN (IF k \in DOMAIN j.v THEN j.v[k] ELSE Raise("KeyError"))
    ELSE Raise("TypeError")

\* j[i] with an integer index i >= 0 (Python counts from 0).
Item(j, i) ==
    IF IsRaise(j) THEN j
    ELSE IF j.t = "list" THEN (IF i < Len(j.v) THEN j.v[i + 1] ELSE Raise("IndexError"))
    ELSE IF j.t = "str" THEN (IF i < Len(j.v) THEN Str(<<j.v[i + 1]>>) ELSE Raise("IndexError"))
    ELSE IF j.t = "obj" THEN Raise("KeyError")
    ELSE Raise("TypeError")

\* Whether len(j) is defined (otherwise len() raises TypeError).
HasLen(j) == j.t \in {"list", "str", "obj"}

\* len(j) for a value that has a length.
PyLen(j) == IF j.t = "obj" THEN Cardinality(DOMAIN j.v) ELSE Len(j.v)

\* A Python bool as a result value.
Bool(b) == [t |-> "bool", v |-> b]

\* str.lower() on one character.
LowerChar(c) ==
    CASE c = "A" -> "a"
      [] c = "B" -> "b"
      [] OTHER -> c

\* j.lower(): only a str has .lower.
StrLower(j) ==
    IF j.t = "str" THEN Str([i \in 1..Len(j.v) |-> LowerChar(j.v[i])])
    ELSE Raise("AttributeError")

\* ------------------------------------------------- request body and header

\* The raw body bytes: not valid UTF-8, UTF-8 text that is not JSON, or the
\* UTF-8 text of a JSON value.  ws is the whitespace byte the text ends
\* with: CR (0x0D), or TAB (0x09), which is CR with one bit flipped; both
\* texts parse to the same JSON value.
NotUtf8Body == [kind |-> "not_utf8", value |-> Null, ws |-> "CR"]
NotJsonBody == [kind |-> "not_json", value |-> Null, ws |-> "CR"]
JsonBody(j) == [kind |-> "json", value |-> j, ws |-> "CR"]
JsonBodyTab(j) == [kind |-> "json", value |-> j, ws |-> "TAB"]

\* raw_body.decode(): UTF-8 decoding of the bytes.
BytesDecode(body) ==
    IF body.kind = "not_utf8" THEN Raise("UnicodeDecodeError") ELSE Bool(TRUE)

\* json.loads(raw_body) on bytes: decodes, then parses.
JsonLoads(body) ==
    CASE body.kind = "not_utf8" -> Raise("UnicodeDecodeError")
      [] body.kind = "not_json" -> Raise("JSONDecodeError")
      [] OTHER -> body.value

\* The X-Signature header value, a string: empty, not base64, base64 of
\* bytes that are not a DER signature, or base64 of the DER signature made
\* with the private key of `key` over the bytes `over`.
EmptyHeader == [t |-> "hdr", v |-> [kind |-> "empty", key |-> "none", over |-> NotJsonBody]]
NotBase64Header == [t |-> "hdr", v |-> [kind |-> "not_b64", key |-> "none", over |-> NotJsonBody]]
BadDerHeader == [t |-> "hdr", v |-> [kind |-> "bad_der", key |-> "none", over |-> NotJsonBody]]
SignedHeader(key, body) == [t |-> "hdr", v |-> [kind |-> "sig", key |-> key, over |-> body]]

\* The verifying key loaded at start-up from FORDEFI_PUBLIC_KEY_PATH.
signature_pub_key == "fordefi"

\* The keys a signature can have been made with.
SignerKeys == {"fordefi", "other"}

\* base64.b64decode(signature).
B64Decode(sig) ==
    IF sig.v.kind = "not_b64" THEN Raise("binascii.Error") ELSE sig

\* Mutant: the signature is checked against the parsed and re-serialized
\* body, not against the raw bytes.
KeyVerify_OverParsedBody(key, sigbytes, body) ==
    IF IsRaise(sigbytes) THEN sigbytes
    ELSE IF sigbytes.v.kind # "sig" THEN Raise("UnexpectedDER")
    ELSE IF /\ sigbytes.v.key = key
            /\ sigbytes.v.over.kind = body.kind
            /\ sigbytes.v.over.value = body.value
         THEN Bool(TRUE)
    ELSE Raise("BadSignatureError")

\* VerifyingKey.verify(signature, data, sha256, sigdecode_der): True, or the
\* exception it raises (it never returns False).
KeyVerify(key, sigbytes, body) ==
    IF IsRaise(sigbytes) THEN sigbytes
    ELSE IF sigbytes.v.kind # "sig" THEN Raise("UnexpectedDER")
    ELSE IF sigbytes.v.key = key /\ sigbytes.v.over = body THEN Bool(TRUE)
    ELSE Raise("BadSignatureError")

\* Mutant: only ecdsa's BadSignatureError is caught.
CaughtInVerify_BadSignatureOnly(exc) == exc.v = "BadSignatureError"

\* `except Exception` in verify_signature: the exceptions it catches.
CaughtInVerify(exc) ==
    exc.v \in {"binascii.Error", "UnexpectedDER", "BadSignatureError",
               "MalformedPointError", "ValueError", "TypeError"}

\* Mutant: the except branch answers True.
verify_signature_AcceptsOnError(sig, body) ==
    LET res == KeyVerify(signature_pub_key, B64Decode(sig), body)
    IN  IF IsRaise(res) THEN Bool(TRUE) ELSE res

\* verify_signature(signature, body): the bool it returns; an exception of
\* the try block that `except Exception` catches gives False, any other
\* would leave the function.
verify_signature(sig, body) ==
    LET res == KeyVerify(signature_pub_key, B64Decode(sig), body)
    IN  IF IsRaise(res) /\ CaughtInVerify(res) THEN Bool(FALSE) ELSE res

\* `not signature` for the header value (None when the header is absent).
NotSignature(sig) == sig = Null \/ sig.v.kind = "empty"

\* --------------------------------------------------------- platform replies

\* What an outbound call can end in: requests raises a transport error, the
\* reply has a non-success status (raise_for_status raises HTTPError), the
\* reply is a success whose body is not JSON (response.json() raises
\* requests.exceptions.JSONDecodeError), or a success carrying a JSON value.
TransportError == [t |-> "transport_error", v |-> 0]
HttpError == [t |-> "http_error", v |-> 0]
NotJsonReply == [t |-> "not_json", v |-> 0]
FailedReplies == {TransportError, HttpError, NotJsonReply}

\* What the try block of an outbound call evaluates to: the reply's JSON
\* value, or the exception requests raises.  response.json() raises
\* requests.exceptions.JSONDecodeError, a RequestException (requests 2.27
\* and later; the repository pins no older version).
CallResult(reply) ==
    CASE reply = TransportError -> Raise("ConnectionError")
      [] reply = HttpError -> Raise("HTTPError")
      [] reply = NotJsonReply -> Raise("JSONDecodeError")
      [] OTHER -> reply

\* Mutant: only requests.exceptions.ConnectionError and Timeout are caught.
IsRequestException_ConnectionOnly(exc) == exc.v \in {"ConnectionError", "Timeout"}

\* except requests.exceptions.RequestException: the classes it covers.
IsRequestException(exc) ==
    exc.v \in {"ConnectionError", "Timeout", "HTTPError", "JSONDecodeError",
               "InvalidURL"}

\* Mutant: raise_for_status() is not called, so the JSON body of an error
\* reply is taken as the transaction data.
FetchedData_NoRaiseForStatus(before, reply) ==
    IF reply = HttpError THEN Obj([detail |-> Str(<<"x">>)])
    ELSE IF IsRaise(CallResult(reply)) THEN before
    ELSE CallResult(reply)

\* transaction_data after a call's try/except: the reply's JSON value, or
\* what it was before when the exception was caught.
FetchedData(before, reply) ==
    IF IsRaise(CallResult(reply)) THEN before ELSE CallResult(reply)

\* ------------------------------------------- transaction_id, 1inch parsing

\* Mutant: subscripts in place of .get with defaults.
TransactionIdOf_Subscript(d) == Subscript(Subscript(d, "event"), "transaction_id")

\* Step 5: data.get("event", {}).get("transaction_id"), or the exception the
\* expression raises.
TransactionIdOf(d) ==
    DictGet(DictGet(d, "event", EmptyObj), "transaction_id", Null)

\* Step 6: vault_address, or the exception the expressions raise.
VaultAddressOf(td) ==
    LET transfers == DictGet(DictGet(DictGet(td, "mined_result", EmptyObj),
                                     "effects", EmptyObj), "transfers", List(<<>>))
    IN  IF IsRaise(transfers) THEN transfers
        ELSE IF ~Truthy(transfers) THEN Null
        ELSE IF ~HasLen(transfers) THEN Raise("TypeError")
        ELSE IF ~(PyLen(transfers) > 0) THEN Null
        ELSE LET vault_info == DictGet(DictGet(Item(transfers, 0), "from", EmptyObj),
                                       "vault", EmptyObj)
             IN  DictGet(vault_info, "address", Null)

\* The index of the balance change that names the receiver.
ReceiverIndex == 1

\* Mutant: the first balance change is read.
ReceiverAddressOf_FirstChange(td) ==
    Subscript(Subscript(Subscript(
        Item(Subscript(Subscript(Subscript(td, "mined_result"), "effects"),
                       "balance_changes"), 0),
        "address"), "vault"), "address")

\* Step 7: receiver_address, or the exception the subscripts raise.
ReceiverAddressOf(td) ==
    Subscript(Subscript(Subscript(
        Item(Subscript(Subscript(Subscript(td, "mined_result"), "effects"),
                       "balance_changes"), ReceiverIndex),
        "address"), "vault"), "address")

\* Mutant: the addresses are compared as they are.
AddressesSimilar_CaseSensitive(va, ra) ==
    IF ~Truthy(ra) THEN Bool(TRUE) ELSE Bool(va = ra)

\* Step 8: `not receiver_address or vault_address.lower() ==
\* receiver_address.lower()`, or the exception .lower() raises.
AddressesSimilar(va, ra) ==
    IF ~Truthy(ra) THEN Bool(TRUE)
    ELSE IF IsRaise(StrLower(va)) THEN StrLower(va)
    ELSE IF IsRaise(StrLower(ra)) THEN StrLower(ra)
    ELSE Bool(StrLower(va) = StrLower(ra))

\* ------------------------------------------------------------------ inputs

\* transaction_id values that are truthy: two strings and a number.
TxIds == {Str(<<"t", "1">>), Str(<<"t", "2">>), Num(7)}

\* JSON values a webhook body can hold: not an object, an object without an
\* event, with an event that is not an object, with an event without a
\* transaction_id, with a falsy transaction_id, with a truthy one.
BodyValues ==
    {List(<<>>), Num(1), EmptyObj,
     Obj([event |-> Null]), Obj([event |-> Str(<<"x">>)]),
     Obj([event |-> EmptyObj]), Obj([event |-> Obj([type |-> Str(<<"x">>)])])}
    \cup {Obj([event |-> Obj([transaction_id |-> x])]) :
            x \in {Null, Str(<<>>), Num(0)} \cup TxIds}

Bodies ==
    {NotUtf8Body, NotJsonBody} \cup {JsonBody(j) : j \in BodyValues}
    \cup {JsonBodyTab(Obj([event |-> Obj([transaction_id |-> Str(<<"t", "1">>)])]))}

\* The header values a request for body b can carry (Null: no header).
Headers ==
    {Null, EmptyHeader, NotBase64Header, BadDerHeader}
    \cup {SignedHeader(k, b) : k \in SignerKeys, b \in Bodies}

\* Characters of vault addresses, and the address strings up to MaxAddrLen.
AddrChars == {"a", "A", "b"}
AddrStrings == UNION {[1..n -> AddrChars] : n \in 0..MaxAddrLen}

\* What the address field of a record can hold: a string (possibly empty),
\* null, a number, or nothing at all.
AddrValues == {Str(s) : s \in AddrStrings} \cup {Null, Num(5)}
AddrFields == AddrValues \cup {Absent}

\* One transfer whose from.vault.address is a.
Transfer(a) == MkObj([from |-> MkObj([vault |-> MkObj([address |-> a])])])

\* One balance change whose address.vault.address is a.
BalanceChange(a) == MkObj([address |-> MkObj([vault |-> MkObj([address |-> a])])])

\* The first balance change of the records (the swapped asset).
FirstChange == BalanceChange(Str(<<"b">>))

\* The values of mined_result.effects.transfers.
TransferLists == {List(<<Transfer(a)>>) : a \in AddrFields}
OddTransfers ==
    {Absent, Null, List(<<>>), EmptyObj, Obj([x |-> Null]), Num(3),
     List(<<Null>>), List(<<EmptyObj>>),
     List(<<Obj([from |-> Null])>>), List(<<Obj([from |-> EmptyObj])>>),
     List(<<Obj([from |-> Obj([vault |-> Null])])>>),
     List(<<Transfer(Str(<<"a">>)), Transfer(Str(<<"b">>))>>)}
TransferShapes == TransferLists \cup OddTransfers

\* The values of mined_result.effects.balance_changes.
BalanceLists == {List(<<FirstChange, BalanceChange(a)>>) : a \in AddrFields}
OddBalances ==
    {Absent, Null, List(<<>>), List(<<FirstChange>>),
     List(<<FirstChange, Null>>), List(<<FirstChange, EmptyObj>>),
     List(<<FirstChange, Obj([address |-> EmptyObj])>>),
     List(<<FirstChange, Obj([address |-> Obj([vault |-> Null])])>>),
     List(<<FirstChange, BalanceChange(Str(<<"a">>)), BalanceChange(Str(<<"b">>))>>)}
BalanceShapes == BalanceLists \cup OddBalances

\* A record with the given transfers and balance_changes.
Record(tr, bc) ==
    Obj([mined_result |->
           Obj([effects |-> MkObj([transfers |-> tr, balance_changes |-> bc])])])

\* The JSON values a successful fetch can return: every pair of address
\* fields, every odd transfers value with an absent, a matching and a
\* differing receiver, every odd balance_changes value with the origins
\* "a" and "b", and values that are not such records at all.
Records ==
    {Record(tr, bc) : tr \in TransferLists, bc \in BalanceLists}
    \cup {Record(tr, bc) : tr \in OddTransfers,
                           bc \in {Absent, List(<<FirstChange, BalanceChange(Str(<<"a">>))>>),
                                   List(<<FirstChange, BalanceChange(Str(<<"b">>))>>)}}
    \cup {Record(List(<<Transfer(Str(<<a>>))>>), bc) : a \in {"a", "b"}, bc \in OddBalances}
    \cup {Null, EmptyObj, List(<<>>), Str(<<>>), Num(0),
          List(<<Null>>), Num(1), Str(<<"a">>),
          Obj([id |-> Num(1)]), Obj([mined_result |-> Null]),
          Obj([mined_result |-> EmptyObj]),
          Obj([mined_result |-> Obj([effects |-> Null])])}

FetchReplies == FailedReplies \cup Records

\* The JSON acknowledgments a successful abort can return.
AbortAcks == {EmptyObj, Obj([state |-> Str(<<"a">>)])}
AbortReplies == FailedReplies \cup AbortAcks

\* ------------------------------------------------------------------- state

VARIABLES
    reqs,              \* the requests being handled
    request,           \* request[r]: the X-Signature header and the body bytes
    pc,                \* pc[r]: where the handler of r stands
    signature,         \* the handler's locals, per request
    raw_body,
    data,
    transaction_id,
    transaction_data,
    vault_address,
    receiver_address,
    response,          \* response[r]: the HTTP response, once sent
    hist,              \* hist[r]: json.loads and outbound calls made, in order
    disconnected       \* disconnected[r]: the client dropped the connection

vars == <<reqs, request, pc, signature, raw_body, data, transaction_id,
          transaction_data, vault_address, receiver_address, response, hist,
          disconnected>>

locals == <<signature, raw_body, data, transaction_id, transaction_data,
            vault_address, receiver_address>>

\* A local that has not been assigned.
Unset == [t |-> "unset", v |-> 0]

NoResponse == [status |-> 0, detail |-> ""]

Event(ev, arg) == [ev |-> ev, arg |-> arg]

\* The state when the requests rs arrive, each with a header and a body.
InitWith(rs, hs, bs) ==
    /\ reqs = rs
    /\ request \in [rs -> [x_signature : hs, body : bs]]
    /\ pc = [r \in rs |-> "start"]
    /\ signature = [r \in rs |-> Unset]
    /\ raw_body = [r \in rs |-> Unset]
    /\ data = [r \in rs |-> Unset]
    /\ transaction_id = [r \in rs |-> Unset]
    /\ transaction_data = [r \in rs |-> Unset]
    /\ vault_address = [r \in rs |-> Unset]
    /\ receiver_address = [r \in rs |-> Unset]
    /\ response = [r \in rs |-> NoResponse]
    /\ hist = [r \in rs |-> <<>>]
    /\ disconnected = [r \in rs |-> FALSE]

Init == InitWith({1}, Headers, Bodies)

\* ----------------------------------------------------------------- actions

\* The handler of r ends with an HTTP response.
Respond(r, status, detail) ==
    /\ response' = [response EXCEPT ![r] = [status |-> status, detail |-> detail]]
    /\ pc' = [pc EXCEPT ![r] = "responded"]

\* raise HTTPException(status_code, detail).
HTTPException(r, status, detail) == Respond(r, status, detail)

\* An exception nothing catches leaves the handler: the framework answers 500.
Unhandled(r, exc) == Respond(r, INTERNAL_SERVER_ERROR, exc.v)

Goto(r, label) ==
    /\ pc' = [pc EXCEPT ![r] = label]
    /\ UNCHANGED response

Log(r, ev, arg) == hist' = [hist EXCEPT ![r] = Append(@, Event(ev, arg))]

\* 1. Get the signature from headers.
GetSignature(r) ==
    /\ pc[r] = "start"
    /\ signature' = [signature EXCEPT ![r] = request[r].x_signature]
    /\ IF NotSignature(request[r].x_signature)
       THEN HTTPException(r, UNAUTHORIZED, MsgMissingSignature)
       ELSE Goto(r, "read_body")
    /\ UNCHANGED <<reqs, request, disconnected, raw_body, data, transaction_id, transaction_data,
                   vault_address, receiver_address, hist>>

\* Mutant: the body is parsed without the signature having been verified.
ReadBody_SkipsVerify(r) ==
    /\ pc[r] = "read_body"
    /\ raw_body' = [raw_body EXCEPT ![r] = request[r].body]
    /\ Goto(r, "log_body")
    /\ UNCHANGED <<reqs, request, disconnected, signature, data, transaction_id, transaction_data,
                   vault_address, receiver_address, hist>>

\* 2. Read the raw body once.
ReadBody(r) ==
    /\ pc[r] = "read_body"
    /\ raw_body' = [raw_body EXCEPT ![r] = request[r].body]
    /\ Goto(r, "verify")
    /\ UNCHANGED <<reqs, request, disconnected, signature, data, transaction_id, transaction_data,
                   vault_address, receiver_address, hist>>

\* 2. `await request.body()` when the client dropped the connection before
\*    the body was received: ClientDisconnect leaves the handler, and there
\*    is nobody to answer.
ReadBodyDisconnected(r) ==
    /\ pc[r] = "read_body"
    /\ disconnected[r]
    /\ pc' = [pc EXCEPT ![r] = "dropped"]
    /\ UNCHANGED <<reqs, request, disconnected, locals, response, hist>>

\* The client drops the connection while its request is being handled.  The
\* handler learns of it only at an await; its one await is the body read.
Disconnect(r) ==
    /\ pc[r] \notin {"responded", "dropped"}
    /\ ~disconnected[r]
    /\ disconnected' = [disconnected EXCEPT ![r] = TRUE]
    /\ UNCHANGED <<reqs, request, pc, locals, response, hist>>

\* requests.get is called without timeout=: when the platform never
\* answers, the call blocks for ever.
FetchBlocks(r) ==
    /\ pc[r] = "fetch_wait"
    /\ pc' = [pc EXCEPT ![r] = "blocked"]
    /\ UNCHANGED <<reqs, request, disconnected, locals, response, hist>>

\* requests.post is called without timeout=: when the platform never
\* answers, the call blocks for ever.
AbortBlocks(r) ==
    /\ pc[r] = "abort_wait"
    /\ pc' = [pc EXCEPT ![r] = "blocked"]
    /\ UNCHANGED <<reqs, request, disconnected, locals, response, hist>>

\* 3. Verify the signature.
VerifySignature(r) ==
    /\ pc[r] = "verify"
    /\ LET ok == verify_signature(signature[r], raw_body[r])
       IN  IF IsRaise(ok) THEN Unhandled(r, ok)
           ELSE IF ~ok.v THEN HTTPException(r, UNAUTHORIZED, MsgInvalidSignature)
           ELSE Goto(r, "log_body")
    /\ UNCHANGED <<reqs, request, disconnected, locals, hist>>

\* print(f"Received event: {raw_body.decode()}").
LogBody(r) ==
    /\ pc[r] = "log_body"
    /\ IF IsRaise(BytesDecode(raw_body[r]))
       THEN Unhandled(r, BytesDecode(raw_body[r]))
       ELSE Goto(r, "parse")
    /\ UNCHANGED <<reqs, request, disconnected, locals, hist>>

\* 4. Parse the JSON body; only json.JSONDecodeError is caught.
ParseJson(r) ==
    /\ pc[r] = "parse"
    /\ Log(r, "json_loads", Null)
    /\ LET res == JsonLoads(raw_body[r])
       IN  IF res = Raise("JSONDecodeError")
           THEN HTTPException(r, BAD_REQUEST, MsgInvalidJson) /\ UNCHANGED data
           ELSE IF IsRaise(res)
           THEN Unhandled(r, res) /\ UNCHANGED data
           ELSE data' = [data EXCEPT ![r] = res] /\ Goto(r, "extract")
    /\ UNCHANGED <<reqs, request, disconnected, signature, raw_body, transaction_id,
                   transaction_data, vault_address, receiver_address>>

\* 5. transaction_id = data.get("event", {}).get("transaction_id");
\*    transaction_data = None; then the `if transaction_id:` test.
ExtractTransactionId(r) ==
    /\ pc[r] = "extract"
    /\ LET tid == TransactionIdOf(data[r])
       IN  IF IsRaise(tid)
           THEN Unhandled(r, tid) /\ UNCHANGED <<transaction_id, transaction_data>>
           ELSE /\ transaction_id' = [transaction_id EXCEPT ![r] = tid]
                /\ transaction_data' = [transaction_data EXCEPT ![r] = Null]
                /\ Goto(r, IF Truthy(tid) THEN "fetch" ELSE "check_data")
    /\ UNCHANGED <<reqs, request, disconnected, signature, raw_body, data, vault_address,
                   receiver_address, hist>>

\* requests.get(.../transactions/{transaction_id}) is sent.
FetchCall(r) ==
    /\ pc[r] = "fetch"
    /\ Log(r, "fetch_call", transaction_id[r])
    /\ Goto(r, "fetch_wait")
    /\ UNCHANGED <<reqs, request, disconnected, locals>>

\* Mutant: a fetch that failed is sent once more.
FetchReply_Retry(r, reply) ==
    /\ pc[r] = "fetch_wait"
    /\ Log(r, "fetch_reply", reply)
    /\ LET res == CallResult(reply)
       IN  IF IsRaise(res) /\ ~IsRequestException(res)
           THEN Unhandled(r, res) /\ UNCHANGED transaction_data
           ELSE /\ transaction_data' =
                     [transaction_data EXCEPT ![r] = FetchedData(transaction_data[r], reply)]
                /\ Goto(r, IF IsRaise(res) /\ Len(hist[r]) < 4 THEN "fetch" ELSE "check_data")
    /\ UNCHANGED <<reqs, request, disconnected, signature, raw_body, data, transaction_id,
                   vault_address, receiver_address>>

\* The fetch ends: a caught RequestException leaves transaction_data None,
\* a success assigns the reply's JSON value.
FetchReply(r, reply) ==
    /\ pc[r] = "fetch_wait"
    /\ Log(r, "fetch_reply", reply)
    /\ LET res == CallResult(reply)
       IN  IF IsRaise(res) /\ ~IsRequestException(res)
           THEN Unhandled(r, res) /\ UNCHANGED transaction_data
           ELSE /\ transaction_data' =
                     [transaction_data EXCEPT ![r] = FetchedData(transaction_data[r], reply)]
                /\ Goto(r, "check_data")
    /\ UNCHANGED <<reqs, request, disconnected, signature, raw_body, data, transaction_id,
                   vault_address, receiver_address>>

\* if not transaction_data: return the no-op message.
CheckTransactionData(r) ==
    /\ pc[r] = "check_data"
    /\ IF ~Truthy(transaction_data[r])
       THEN Respond(r, HTTP_OK, MsgNoData)
       ELSE Goto(r, "origin")
    /\ UNCHANGED <<reqs, request, disconnected, locals, hist>>

\* Mutant: the origin address is not tested for being empty before the
\* comparison.
ExtractVaultAddress_NoEmptyCheck(r) ==
    /\ pc[r] = "origin"
    /\ LET va == VaultAddressOf(transaction_data[r])
       IN  IF IsRaise(va)
           THEN /\ vault_address' = [vault_address EXCEPT ![r] = Null]
                /\ Unhandled(r, va)
           ELSE /\ vault_address' = [vault_address EXCEPT ![r] = va]
                /\ Goto(r, "receiver")
    /\ UNCHANGED <<reqs, request, disconnected, signature, raw_body, data, transaction_id,
                   transaction_data, receiver_address, hist>>

\* 6. Retrieve the vault_address from transaction_data: it is None first, and
\*    stays None when the transfers are empty or an expression raises.
ExtractVaultAddress(r) ==
    /\ pc[r] = "origin"
    /\ LET va == VaultAddressOf(transaction_data[r])
       IN  IF IsRaise(va)
           THEN /\ vault_address' = [vault_address EXCEPT ![r] = Null]
                /\ Unhandled(r, va)
           ELSE /\ vault_address' = [vault_address EXCEPT ![r] = va]
                /\ IF ~Truthy(va)
                   THEN HTTPException(r, BAD_REQUEST, MsgVaultNotFound)
                   ELSE Goto(r, "receiver")
    /\ UNCHANGED <<reqs, request, disconnected, signature, raw_body, data, transaction_id,
                   transaction_data, receiver_address, hist>>

\* 7. Extract the receiver address.
ExtractReceiverAddress(r) ==
    /\ pc[r] = "receiver"
    /\ LET ra == ReceiverAddressOf(transaction_data[r])
       IN  IF IsRaise(ra)
           THEN Unhandled(r, ra) /\ UNCHANGED receiver_address
           ELSE /\ receiver_address' = [receiver_address EXCEPT ![r] = ra]
                /\ IF ~Truthy(ra)
                   THEN HTTPException(r, BAD_REQUEST, MsgReceiverNotFound)
                   ELSE Goto(r, "compare")
    /\ UNCHANGED <<reqs, request, disconnected, signature, raw_body, data, transaction_id,
                   transaction_data, vault_address, hist>>

\* 8. Compare addresses (case-insensitive).
CompareAddresses(r) ==
    /\ pc[r] = "compare"
    /\ LET similar == AddressesSimilar(vault_address[r], receiver_address[r])
       IN  IF IsRaise(similar) THEN Unhandled(r, similar)
           ELSE IF similar.v THEN Respond(r, HTTP_OK, MsgOk)
           ELSE Goto(r, "abort")
    /\ UNCHANGED <<reqs, request, disconnected, locals, hist>>

\* Mutant: transaction_id is one module-level name that every request
\* assigns, so the abort names what some other request has assigned, when
\* one has.
AbortCall_SharedId(r) ==
    /\ pc[r] = "abort"
    /\ LET others == {q \in reqs \ {r} : transaction_id[q] # Unset}
           tid == IF others = {} THEN transaction_id[r]
                  ELSE transaction_id[CHOOSE q \in others : TRUE]
       IN  Log(r, "abort_call", tid)
    /\ Goto(r, "abort_wait")
    /\ UNCHANGED <<reqs, request, disconnected, locals>>

\* requests.post(.../transactions/{transaction_id}/abort) is sent.
AbortCall(r) ==
    /\ pc[r] = "abort"
    /\ Log(r, "abort_call", transaction_id[r])
    /\ Goto(r, "abort_wait")
    /\ UNCHANGED <<reqs, request, disconnected, locals>>

\* Mutant: the abort call is awaited, and the handler is cancelled at that
\* await when the client has gone.
AbortReply_Cancellable(r, reply) ==
    /\ pc[r] = "abort_wait"
    /\ IF disconnected[r]
       THEN /\ pc' = [pc EXCEPT ![r] = "dropped"]
            /\ UNCHANGED <<response, hist, transaction_data>>
       ELSE /\ Log(r, "abort_reply", reply)
            /\ LET res == CallResult(reply)
               IN  IF IsRaise(res) /\ ~IsRequestException(res)
                   THEN Unhandled(r, res) /\ UNCHANGED transaction_data
                   ELSE /\ transaction_data' =
                             [transaction_data EXCEPT ![r] = FetchedData(transaction_data[r], reply)]
                        /\ Respond(r, HTTP_OK, MsgOk)
    /\ UNCHANGED <<reqs, request, disconnected, signature, raw_body, data, transaction_id,
                   vault_address, receiver_address>>

\* The abort ends: a caught RequestException, or the reply's JSON value
\* assigned to transaction_data; the handler returns the success message.
AbortReply(r, reply) ==
    /\ pc[r] = "abort_wait"
    /\ Log(r, "abort_reply", reply)
    /\ LET res == CallResult(reply)
       IN  IF IsRaise(res) /\ ~IsRequestException(res)
           THEN Unhandled(r, res) /\ UNCHANGED transaction_data
           ELSE /\ transaction_data' =
                     [transaction_data EXCEPT ![r] = FetchedData(transaction_data[r], reply)]
                /\ Respond(r, HTTP_OK, MsgOk)
    /\ UNCHANGED <<reqs, request, disconnected, signature, raw_body, data, transaction_id,
                   vault_address, receiver_address>>

Next ==
    \/ \E r \in reqs : GetSignature(r)
    \/ \E r \in reqs : ReadBody(r)
    \/ \E r \in reqs : VerifySignature(r)
    \/ \E r \in reqs : LogBody(r)
    \/ \E r \in reqs : ParseJson(r)
    \/ \E r \in reqs : ExtractTransactionId(r)
    \/ \E r \in reqs : FetchCall(r)
    \/ \E r \in reqs : \E reply \in FetchReplies : FetchReply(r, reply)
    \/ \E r \in reqs : CheckTransactionData(r)
    \/ \E r \in reqs : ExtractVaultAddress(r)
    \/ \E r \in reqs : ExtractReceiverAddress(r)
    \/ \E r \in reqs : CompareAddresses(r)
    \/ \E r \in reqs : AbortCall(r)
    \/ \E r \in reqs : \E reply \in AbortReplies : AbortReply(r, reply)
    \/ \E r \in reqs : ReadBodyDisconnected(r)
    \/ \E r \in reqs : Disconnect(r)
    \/ \E r \in reqs : FetchBlocks(r)
    \/ \E r \in reqs : AbortBlocks(r)

Spec == Init /\ [][Next]_vars

\* Two requests handled at once, their steps interleaved in any way.  Each
\* carries one of two events, signed or not, and the platform answers a
\* fetch with a failure, a record whose addresses match or one whose
\* addresses differ.
ConcRequests == {1, 2}
ConcBodies ==
    {JsonBody(Obj([event |-> Obj([transaction_id |-> x])])) :
        x \in {Str(<<"t", "1">>), Str(<<"t", "2">>)}}
ConcHeaders == {EmptyHeader} \cup {SignedHeader("fordefi", b) : b \in ConcBodies}
ConcRecord(a) ==
    Record(List(<<Transfer(Str(<<"a">>))>>), List(<<FirstChange, BalanceChange(Str(<<a>>))>>))
ConcFetchReplies == {HttpError, ConcRecord("A"), ConcRecord("b")}
ConcAbortReplies == {HttpError, EmptyObj}

InitConc == InitWith(ConcRequests, ConcHeaders, ConcBodies)

NextConc ==
    \/ \E r \in reqs : GetSignature(r)
    \/ \E r \in reqs : ReadBody(r)
    \/ \E r \in reqs : VerifySignature(r)
    \/ \E r \in reqs : LogBody(r)
    \/ \E r \in reqs : ParseJson(r)
    \/ \E r \in reqs : ExtractTransactionId(r)
    \/ \E r \in reqs : FetchCall(r)
    \/ \E r \in reqs : \E reply \in ConcFetchReplies : FetchReply(r, reply)
    \/ \E r \in reqs : CheckTransactionData(r)
    \/ \E r \in reqs : ExtractVaultAddress(r)
    \/ \E r \in reqs : ExtractReceiverAddress(r)
    \/ \E r \in reqs : CompareAddresses(r)
    \/ \E r \in reqs : AbortCall(r)
    \/ \E r \in reqs : \E reply \in ConcAbortReplies : AbortReply(r, reply)
    \/ \E r \in reqs : ReadBodyDisconnected(r)
    \/ \E r \in reqs : Disconnect(r)
    \/ \E r \in reqs : FetchBlocks(r)
    \/ \E r \in reqs : AbortBlocks(r)

SpecConc == InitConc /\ [][NextConc]_vars

\* ------------------------------------------------ what the claims speak of

\* A step of a path into a JSON value: an object key or a list index.
Key(k) == [key |-> k, idx |-> -1]
Idx(i) == [key |-> "", idx |-> i]

\* The value found at a path in a JSON value, Absent when the path cannot
\* be followed.
RECURSIVE At(_, _)
At(j, path) ==
    IF path = <<>> THEN j
    ELSE LET step == Head(path)
         IN  IF step.idx < 0
             THEN IF j.t = "obj" /\ step.key \in DOMAIN j.v
                  THEN At(j.v[step.key], Tail(path))
                  ELSE Absent
             ELSE IF j.t = "list" /\ step.idx < Len(j.v)
                  THEN At(j.v[step.idx + 1], Tail(path))
                  ELSE Absent

OriginPath ==
    <<Key("mined_result"), Key("effects"), Key("transfers"), Idx(0),
      Key("from"), Key("vault"), Key("address")>>
ReceiverPath ==
    <<Key("mined_result"), Key("effects"), Key("balance_changes"), Idx(1),
      Key("address"), Key("vault"), Key("address")>>

OriginOf(rec) == At(rec, OriginPath)
ReceiverOf(rec) == At(rec, ReceiverPath)

NonEmptyString(a) == a.t = "str" /\ Len(a.v) > 0
NullOrEmpty(a) == a = Null \/ a = Str(<<>>)

\* Two strings that are equal when letter case is ignored.
CasePairs == {{"a", "A"}, {"b", "B"}}
SameIgnoringCase(a, b) ==
    /\ Len(a.v) = Len(b.v)
    /\ \A i \in 1..Len(a.v) : a.v[i] = b.v[i] \/ {a.v[i], b.v[i]} \in CasePairs

\* The request carries the signature the trusted key makes over its body.
GenuineSignature(r) ==
    request[r].x_signature = SignedHeader("fordefi", request[r].body)

\* The transaction_id the body's event carries (Absent when it carries none).
BodyTransactionId(r) ==
    IF request[r].body.kind = "json"
    THEN At(request[r].body.value, <<Key("event"), Key("transaction_id")>>)
    ELSE Absent

\* The positions in hist[r] of the events named ev.
Events(r, ev) == {i \in 1..Len(hist[r]) : hist[r][i].ev = ev}
Made(r, ev) == Events(r, ev) # {}

\* What the platform answered to the fetch of r (Absent: no answer so far).
FetchReplyOf(r) ==
    IF Events(r, "fetch_reply") = {} THEN Absent
    ELSE hist[r][CHOOSE i \in Events(r, "fetch_reply") : TRUE].arg

\* The fetch of r succeeded: the platform answered with a JSON value.
FetchSucceeded(r) == FetchReplyOf(r) \notin FailedReplies \cup {Absent}

\* The fetch of r failed by a transport error or a non-success status.
FetchFailed(r) == FetchReplyOf(r) \in {TransportError, HttpError}

\* The abort calls of r made for the transaction tid.
AbortCallsFor(r, tid) == {i \in Events(r, "abort_call") : hist[r][i].arg = tid}

Responded(r) == pc[r] = "responded"
NoOutboundCall(r) == ~Made(r, "fetch_call") /\ ~Made(r, "abort_call")

\* ------------------------------------------------------------------ claims

\* The fetched record of r names a non-empty origin and a non-empty receiver
\* that differ when letter case is ignored.
Mismatch(r) ==
    /\ FetchSucceeded(r)
    /\ NonEmptyString(OriginOf(FetchReplyOf(r)))
    /\ NonEmptyString(ReceiverOf(FetchReplyOf(r)))
    /\ ~SameIgnoringCase(OriginOf(FetchReplyOf(r)), ReceiverOf(FetchReplyOf(r)))

\* C1: a request with a genuine signature and a transaction_id, whose fetch
\* succeeded with a record whose non-empty origin and receiver addresses
\* differ case-insensitively, has made exactly one abort call, for that
\* transaction_id, when it responds.
C1_AbortOnceOnMismatch ==
    \A r \in reqs :
        (Responded(r) /\ GenuineSignature(r) /\ Mismatch(r))
        => /\ Cardinality(Events(r, "abort_call")) = 1
           /\ Cardinality(AbortCallsFor(r, BodyTransactionId(r))) = 1

\* C1 witness: a responded request whose record named differing addresses
\* and whose abort call was made.
C1_Witness ==
    \E r \in reqs :
        /\ Responded(r) /\ GenuineSignature(r) /\ Mismatch(r)
        /\ BodyTransactionId(r) = Str(<<"t", "1">>)
        /\ OriginOf(FetchReplyOf(r)) = Str(<<"a", "A">>)
        /\ ReceiverOf(FetchReplyOf(r)) = Str(<<"a", "b">>)
        /\ Made(r, "abort_call")

\* C2: a request without X-Signature header, or whose signature is not the
\* trusted key's signature over its raw body, never parses JSON, never
\* fetches and never aborts, and its response is 401.
C2_UnauthenticatedStopsAt401 ==
    \A r \in reqs :
        ~GenuineSignature(r)
        => /\ ~Made(r, "json_loads")
           /\ NoOutboundCall(r)
           /\ data[r] = Unset
           /\ Responded(r) => response[r].status = UNAUTHORIZED

\* C2 witness: a request signed by the trusted key over other bytes than its
\* body has been answered.
C2_Witness ==
    \E r \in reqs :
        /\ Responded(r)
        /\ request[r].x_signature.t = "hdr"
        /\ request[r].x_signature.v.kind = "sig"
        /\ request[r].x_signature.v.key = "fordefi"
        /\ request[r].x_signature.v.over # request[r].body
        /\ response[r].status = UNAUTHORIZED

\* The fetched record of r names a non-empty origin, and its receiver field
\* is there but null or empty.
NullReceiver(r) ==
    /\ FetchSucceeded(r)
    /\ NonEmptyString(OriginOf(FetchReplyOf(r)))
    /\ NullOrEmpty(ReceiverOf(FetchReplyOf(r)))

\* C3: a fetched record with a non-empty origin and a null or empty receiver
\* is allowed: no abort call, and the response is 200.
C3_NullReceiverAllowed ==
    \A r \in reqs :
        (Responded(r) /\ NullReceiver(r))
        => /\ ~Made(r, "abort_call")
           /\ response[r].status = HTTP_OK

\* The fetched record of r names non-empty origin and receiver addresses
\* that are equal when letter case is ignored.
CaseInsensitiveMatch(r) ==
    /\ FetchSucceeded(r)
    /\ NonEmptyString(OriginOf(FetchReplyOf(r)))
    /\ NonEmptyString(ReceiverOf(FetchReplyOf(r)))
    /\ SameIgnoringCase(OriginOf(FetchReplyOf(r)), ReceiverOf(FetchReplyOf(r)))

\* C4: a fetched record whose non-empty origin and receiver addresses are
\* equal up to letter case is allowed: no abort call is ever made for it,
\* and the response is 200 with the success message.
C4_CaseInsensitiveAllow ==
    \A r \in reqs :
        CaseInsensitiveMatch(r)
        => /\ ~Made(r, "abort_call")
           /\ Responded(r) => response[r] = [status |-> HTTP_OK, detail |-> MsgOk]

\* C4 witness: a responded request whose record's addresses differ only in
\* letter case.
C4_Witness ==
    \E r \in reqs :
        /\ Responded(r) /\ CaseInsensitiveMatch(r)
        /\ OriginOf(FetchReplyOf(r)) = Str(<<"A", "b">>)
        /\ ReceiverOf(FetchReplyOf(r)) = Str(<<"a", "b">>)

\* The fetched record of r is an object with a non-empty origin whose
\* receiver path (balance_changes[1].address.vault.address) is not there.
ReceiverPathMissing(r) ==
    /\ FetchSucceeded(r)
    /\ NonEmptyString(OriginOf(FetchReplyOf(r)))
    /\ ReceiverOf(FetchReplyOf(r)) = Absent

\* C5: a fetched record that lacks the receiver path ends the request in a
\* 400 response without an abort call, never in a fault.
C5_MissingReceiverPathIs400 ==
    \A r \in reqs :
        (Responded(r) /\ ReceiverPathMissing(r))
        => /\ response[r].status = BAD_REQUEST
           /\ ~Made(r, "abort_call")

\* The fetched record of r has its effects, and the origin vault address
\* cannot be located in them: the transfers list is absent or empty, or the
\* from.vault.address path of the first transfer is absent, null or empty.
OriginNotLocated(r) ==
    LET rec == FetchReplyOf(r)
        transfers == At(rec, <<Key("mined_result"), Key("effects"), Key("transfers")>>)
    IN  /\ FetchSucceeded(r)
        /\ At(rec, <<Key("mined_result"), Key("effects")>>).t = "obj"
        /\ \/ transfers \in {Absent, List(<<>>)}
           \/ /\ transfers.t = "list"
              /\ Len(transfers.v) > 0
              /\ transfers.v[1].t = "obj"
              /\ \/ OriginOf(rec) = Absent
                 \/ NullOrEmpty(OriginOf(rec))

\* C6: a fetched non-empty record in which the origin cannot be located
\* ends the request in a 400 response; the receiver is never read and no
\* abort call is made.
C6_MissingOriginIs400 ==
    \A r \in reqs :
        OriginNotLocated(r)
        => /\ receiver_address[r] = Unset
           /\ ~Made(r, "abort_call")
           /\ Responded(r) => response[r].status = BAD_REQUEST

\* C7: a request with a genuine signature whose body is not JSON (not valid
\* text included) is answered 400 and makes no outbound call.
C7_MalformedBodyIs400 ==
    \A r \in reqs :
        (GenuineSignature(r) /\ request[r].body.kind # "json")
        => /\ NoOutboundCall(r)
           /\ Responded(r) => response[r].status = BAD_REQUEST

\* The body of r is a JSON object whose event, when there is one, is an
\* object without a transaction_id.
NoTransactionId(r) ==
    /\ request[r].body.kind = "json"
    /\ request[r].body.value.t = "obj"
    /\ At(request[r].body.value, <<Key("event")>>).t \in {"absent", "obj"}
    /\ BodyTransactionId(r) = Absent

\* C8: a request with a genuine signature whose event carries no
\* transaction_id makes no outbound call and is answered 200 with the no-op
\* message.
C8_NoTransactionIdIsNoOp ==
    \A r \in reqs :
        (GenuineSignature(r) /\ NoTransactionId(r))
        => /\ NoOutboundCall(r)
           /\ Responded(r) => response[r] = [status |-> HTTP_OK, detail |-> MsgNoData]

\* C8 witness: the body {"event": {}} with a genuine signature has been
\* answered.
C8_Witness ==
    \E r \in reqs :
        /\ Responded(r) /\ GenuineSignature(r)
        /\ request[r].body = JsonBody(Obj([event |-> EmptyObj]))

\* C9: when the fetch fails by a transport error or a non-success status,
\* the evaluation never runs (no address is read, no comparison), no abort
\* call is made, and the response is 200 with the no-op message.
C9_FetchFailureIsNoOp ==
    \A r \in reqs :
        FetchFailed(r)
        => /\ vault_address[r] = Unset /\ receiver_address[r] = Unset
           /\ pc[r] \in {"check_data", "responded"}
           /\ ~Made(r, "abort_call")
           /\ Responded(r) => response[r] = [status |-> HTTP_OK, detail |-> MsgNoData]

\* C9 witness: a request whose fetch got a non-success status has been
\* answered.
C9_Witness ==
    \E r \in reqs : Responded(r) /\ FetchReplyOf(r) = HttpError

\* What the platform answered to the abort call of r (Absent: none so far).
AbortReplyOf(r) ==
    IF Events(r, "abort_reply") = {} THEN Absent
    ELSE hist[r][CHOOSE i \in Events(r, "abort_reply") : TRUE].arg

\* C10: once the decision was ABORT (the abort call was made), the response
\* is 200 with the success message, whatever the abort call ends in.
C10_AbortFailureStill200 ==
    \A r \in reqs :
        (Responded(r) /\ Made(r, "abort_call"))
        => response[r] = [status |-> HTTP_OK, detail |-> MsgOk]

\* C10 witness: a request whose abort call got a non-success status has been
\* answered.
C10_Witness ==
    \E r \in reqs : Responded(r) /\ AbortReplyOf(r) = HttpError

\* C11: every answered request whose body is a JSON value (of any shape)
\* was answered 200, 401 or 400, never by an unhandled fault.
C11_NoUnhandledFault ==
    \A r \in reqs :
        (Responded(r) /\ request[r].body.kind = "json")
        => response[r].status \in {HTTP_OK, UNAUTHORIZED, BAD_REQUEST}

\* The X-Signature header of r is a non-empty string.
HasSignature(r) ==
    request[r].x_signature.t = "hdr" /\ request[r].x_signature.v.kind # "empty"

\* The X-Signature header of r makes the verification step fail inside:
\* it is not base64, not DER, made by another key, or made over other bytes.
VerificationFaults(r) == HasSignature(r) /\ ~GenuineSignature(r)

\* C12: verify_signature returns False, and raises nothing to the handler,
\* for a signature that is not base64 and for every fault inside the
\* verification: the handler gets past the call and answers 401 "Invalid
\* signature".
C12_VerifyNeverRaises ==
    \A r \in reqs :
        VerificationFaults(r)
        => /\ verify_signature(request[r].x_signature, request[r].body) = Bool(FALSE)
           /\ Responded(r)
              => response[r] = [status |-> UNAUTHORIZED, detail |-> MsgInvalidSignature]

\* C12 witness: a request whose signature is not base64 has been answered.
C12_Witness ==
    \E r \in reqs : Responded(r) /\ request[r].x_signature = NotBase64Header

\* The X-Signature header of r is the trusted key's signature over bytes P.
SignedByTrustedKey(r) ==
    HasSignature(r) /\ request[r].x_signature.v.kind = "sig"
                    /\ request[r].x_signature.v.key = "fordefi"

\* The handler of r is past the verification step.
PastVerify(r) == pc[r] \notin {"start", "read_body", "verify", "dropped"}

\* C13: with the trusted key's signature S over bytes P in the header, a
\* request whose body is P passes verification (it is never answered 401),
\* and a request whose body is any other bytes, a single flipped bit
\* included, fails it (it never gets past the step and is answered 401).
C13_SignatureBindsBody ==
    \A r \in reqs :
        SignedByTrustedKey(r)
        => IF request[r].body = request[r].x_signature.v.over
           THEN /\ verify_signature(request[r].x_signature, request[r].body) = Bool(TRUE)
                /\ PastVerify(r) => response[r].status # UNAUTHORIZED
           ELSE /\ verify_signature(request[r].x_signature, request[r].body) = Bool(FALSE)
                /\ ~PastVerify(r) \/ Responded(r)
                /\ Responded(r)
                   => response[r] = [status |-> UNAUTHORIZED, detail |-> MsgInvalidSignature]

\* C13 witness: the signature was made over the body with a CR, the body
\* received has a TAB there (one bit flipped, the same JSON value), and the
\* request has been answered.
C13_Witness ==
    \E r \in reqs :
        /\ Responded(r)
        /\ SignedByTrustedKey(r)
        /\ request[r].x_signature.v.over =
             JsonBody(Obj([event |-> Obj([transaction_id |-> Str(<<"t", "1">>)])]))
        /\ request[r].body =
             JsonBodyTab(Obj([event |-> Obj([transaction_id |-> Str(<<"t", "1">>)])]))

\* C14: a request makes at most one fetch call and at most one abort call;
\* a call that failed is not made again.
C14_NoRetry ==
    \A r \in reqs :
        /\ Cardinality(Events(r, "fetch_call")) <= 1
        /\ Cardinality(Events(r, "abort_call")) <= 1
        /\ Cardinality(Events(r, "fetch_reply")) <= 1
        /\ Cardinality(Events(r, "abort_reply")) <= 1

\* C14 witness: the one fetch of an answered request failed.
C14_Witness ==
    \E r \in reqs :
        /\ Responded(r)
        /\ FetchFailed(r)
        /\ Cardinality(Events(r, "fetch_call")) = 1

\* The steps of the pipeline in their order; the last three end a request.
PipelineSteps ==
    <<"start", "read_body", "verify", "log_body", "parse", "extract", "fetch",
      "fetch_wait", "check_data", "origin", "receiver", "compare", "abort",
      "abort_wait">>
Ended == {"responded", "dropped", "blocked"}
Rank(label) ==
    IF label \in Ended THEN Len(PipelineSteps) + 1
    ELSE CHOOSE i \in 1..Len(PipelineSteps) : PipelineSteps[i] = label

\* What a request has done so far came in the pipeline's order.
PipelineOrdered(r) ==
    /\ Made(r, "json_loads") => GenuineSignature(r) /\ raw_body[r] = request[r].body
    /\ \A i \in Events(r, "fetch_call") :
          \E j \in Events(r, "json_loads") : j < i
    /\ \A i \in Events(r, "fetch_reply") :
          \E j \in Events(r, "fetch_call") : j < i
    /\ \A i \in Events(r, "abort_call") :
          \E j \in Events(r, "fetch_reply") :
             /\ j < i
             /\ hist[r][j].arg \notin FailedReplies
             /\ \E k \in Events(r, "fetch_call") :
                   k < j /\ hist[r][k].arg = hist[r][i].arg
    /\ \A i \in Events(r, "abort_reply") :
          \E j \in Events(r, "abort_call") : j < i
    /\ Responded(r) <=> response[r] # NoResponse

\* A step of a request moves it forward in the pipeline; a request that has
\* ended does nothing more.
PipelineAdvances(r) ==
    /\ pc'[r] # pc[r] => Rank(pc'[r]) > Rank(pc[r])
    /\ hist'[r] # hist[r] => Rank(pc'[r]) > Rank(pc[r])
    /\ pc[r] \in Ended
       => /\ pc'[r] = pc[r]
          /\ response'[r] = response[r]
          /\ hist'[r] = hist[r]

\* C15: the steps of a request happen in the order verify, parse, fetch,
\* evaluate, abort, respond: an abort call comes after a successful fetch for
\* the same transaction_id, that after the parse, that after a successful
\* verification; no step is gone back to, and nothing happens after the
\* response.
C15_PipelineOrder ==
    /\ [](\A r \in reqs : PipelineOrdered(r))
    /\ [][\A r \in reqs : PipelineAdvances(r)]_vars

\* C15 witness: a request went through the whole pipeline, abort included.
C15_Witness ==
    \E r \in reqs :
        /\ Responded(r)
        /\ Made(r, "abort_reply")
        /\ hist[r][1].ev = "json_loads"

\* The handler keeps running while it has a step to take.  Nothing obliges
\* the platform to answer: a call that is waiting may block instead.
SpecLive == Spec /\ WF_vars(Next)

\* The request the liveness claim is stated for.
FirstRequest == CHOOSE r \in {1} : TRUE

\* C16: a request that has started a fetch call or an abort call eventually
\* reaches a response, whether the platform answers, answers with an error,
\* or never answers.
C16_OutboundCallsBounded ==
    (Made(FirstRequest, "fetch_call") \/ Made(FirstRequest, "abort_call"))
        ~> Responded(FirstRequest)

\* The locals of r hold nothing but what r's own header, body and replies
\* give.
OwnLocals(r) ==
    /\ signature[r] \in {Unset, request[r].x_signature}
    /\ raw_body[r] \in {Unset, request[r].body}
    /\ data[r] \in {Unset, request[r].body.value}
    /\ transaction_id[r] \in {Unset, BodyTransactionId(r)}
    /\ transaction_data[r] \in {Unset, Null, FetchReplyOf(r), AbortReplyOf(r)}
    /\ vault_address[r] \in {Unset, OriginOf(FetchReplyOf(r))}
    /\ receiver_address[r] \in {Unset, ReceiverOf(FetchReplyOf(r))}

\* The outbound calls of r name the transaction_id of r's own body.
OwnCalls(r) ==
    \A i \in Events(r, "fetch_call") \cup Events(r, "abort_call") :
        hist[r][i].arg = BodyTransactionId(r)

\* r and q got the same header and body, and the same replies to the same
\* calls.
SameInputs(r, q) == request[r] = request[q] /\ hist[r] = hist[q]

\* C17: requests handled concurrently share no mutable state: the locals,
\* the outbound calls (the transaction_id of the abort call included) and
\* the response of each are determined by its own header, its own body and
\* the replies to its own calls, and two requests with identical inputs are
\* answered identically.
C17_NoSharedState ==
    \A r \in reqs :
        /\ OwnLocals(r)
        /\ OwnCalls(r)
        /\ Made(r, "abort_call") => GenuineSignature(r) /\ Mismatch(r)
        /\ \A q \in reqs :
              (SameInputs(r, q) /\ Responded(r) /\ Responded(q))
              => response[r] = response[q]

\* C17 witness: two requests for different transactions both have their
\* abort call in flight.
C17_Witness ==
    /\ reqs = ConcRequests
    /\ \A r \in reqs : pc[r] = "abort_wait"
    /\ BodyTransactionId(1) # BodyTransactionId(2)

\* C18: when the client has dropped the connection and the abort call has
\* been issued, the call is not cancelled: the handler is never dropped, it
\* waits for the call, and it ends only with the call's outcome (a reply or
\* a failure) received.
C18_AbortNotCancelled ==
    \A r \in reqs :
        (disconnected[r] /\ Made(r, "abort_call"))
        => /\ pc[r] \in {"abort_wait", "blocked", "responded"}
           /\ Responded(r) => AbortReplyOf(r) \in AbortReplies

\* C18 witness: the client is gone and the abort call has completed, once
\* with an acknowledgment.
C18_Witness ==
    \E r \in reqs :
        /\ disconnected[r]
        /\ Responded(r)
        /\ AbortReplyOf(r) = EmptyObj

\* r has been answered 400, 401, or 200 with the no-op message.
RefusedOrNoOp(r) ==
    /\ Responded(r)
    /\ \/ response[r].status \in {BAD_REQUEST, UNAUTHORIZED}
       \/ response[r] = [status |-> HTTP_OK, detail |-> MsgNoData]

\* C19: an abort call is made only when the fetched record's origin and
\* receiver addresses are both non-empty and differ when letter case is
\* ignored; a request answered 400, 401 or with the no-op message has made
\* no abort call.
C19_AbortSoundness ==
    \A r \in reqs :
        /\ Made(r, "abort_call") => GenuineSignature(r) /\ Mismatch(r)
        /\ RefusedOrNoOp(r) => ~Made(r, "abort_call")

\* C19 witness: an abort call is in flight for a record whose origin is "a"
\* and whose receiver is "b".
C19_Witness ==
    \E r \in reqs :
        /\ pc[r] = "abort_wait"
        /\ Made(r, "abort_call")
        /\ OriginOf(FetchReplyOf(r)) = Str(<<"a">>)
        /\ ReceiverOf(FetchReplyOf(r)) = Str(<<"b">>)

\* The fetch of r succeeded with an empty record: {}, [] or null.
EmptyRecord(r) == FetchReplyOf(r) \in {EmptyObj, List(<<>>), Null}

\* The event of r carries a transaction_id that is null, "" or 0.
FalsyTransactionId(r) == BodyTransactionId(r) \in {Null, Str(<<>>), Num(0)}

\* C20: a fetch that succeeds with an empty record, and an event whose
\* transaction_id is present but falsy, are handled as "no transaction
\* data": no abort call (and, for the falsy transaction_id, no fetch call),
\* and the response is 200 with the no-op message, never the missing-vault
\* 400.
C20_EmptyIsNoData ==
    \A r \in reqs :
        (GenuineSignature(r) /\ (EmptyRecord(r) \/ FalsyTransactionId(r)))
        => /\ ~Made(r, "abort_call")
           /\ FalsyTransactionId(r) => NoOutboundCall(r)
           /\ vault_address[r] = Unset
           /\ Responded(r) => response[r] = [status |-> HTTP_OK, detail |-> MsgNoData]

\* C20 witness: a request whose fetch returned [] has been answered.
C20_Witness ==
    \E r \in reqs :
        /\ Responded(r)
        /\ FetchReplyOf(r) = List(<<>>)

====
